---- MODULE Spec2Model ----
(***************************************************************************)
(* Model of the Lego Challenge demo app.                                   *)
(*                                                                         *)
(*   src/app/main.py                        the simulation engine and the  *)
(*                                          workflow atoms that call it    *)
(*   src/preprocess/create_tailored_data.py the catalog builder            *)
(*                                                                         *)
(* A DataFrame is a sequence of rows, a row is a record of its columns, a  *)
(* missing value (NaN) is Null.  A Python value that may be None is a      *)
(* sequence of length 0 (None) or 1 (the value).  A Python float is an     *)
(* exact fraction [num, den]; for the shoe sizes 0..199 the truncated      *)
(* double result of get_num_legos_stepped_on equals the truncated exact    *)
(* quotient, because the quotient is never within 1/123201 of an integer   *)
(* other than at shoe size 2, where it is exactly 0.                       *)
(***************************************************************************)
EXTENDS Integers, Sequences, FiniteSets

VARIABLES
    lego_pile_csv,         \* the rows of data/lego_pile.csv
    pc,                    \* the atom the workflow runs next
    lego_pile,             \* value of dump_out_legos
    shoe_size,             \* value of choose_shoe_size
    step,                  \* value of take_a_step
    num_legos_stepped_on,  \* value returned by get_num_legos_stepped_on
    sample_n,              \* the size handed to dump_out_legos.sample
    legos_stepped_on,      \* value returned by get_legos_stepped_on
    reported,              \* the count in "You stepped on ... legos"
    status,                \* outcome of each atom in this cycle
    colors_fig,            \* the value_counts frame handed to px.treemap
    minifigs_vanquished,   \* the death roll of render_death_roll
    featured_enemy,        \* the row render_death_roll features
    damage,                \* the damage render_damage shows
    est_in,                \* argument of a get_num_legos_stepped_on call
    est_offset,            \* the randint(-10, 10) of that call
    est_out,               \* its return value
    bpc,                   \* position in create_tailored_data.main
    inventory_parts,       \* the inventory_parts frame of main
    raw_quantity,          \* the quantity column as read from the csv
    bstatus                \* "ok" or "raised"

appVars == <<lego_pile_csv, pc, lego_pile, shoe_size, step, num_legos_stepped_on, sample_n,
             legos_stepped_on, reported, status, colors_fig,
             minifigs_vanquished, featured_enemy, damage>>
estVars == <<est_in, est_offset, est_out>>
buildVars == <<bpc, inventory_parts, raw_quantity, bstatus>>
vars == <<appVars, estVars, buildVars>>

----------------------------------------------------------------------------
(* Bounds *)

MaxPile == 3        \* rows of the lego pile
MaxInventory == 3   \* rows of inventory_parts
MaxQuantity == 2    \* largest quantity of an inventory row

----------------------------------------------------------------------------
(* Values *)

Null == "NaN"
None == <<>>
Some(x) == <<x>>
Val(o) == o[1]

RECURSIVE SeqSum(_)
SeqSum(s) == IF s = <<>> THEN 0 ELSE Head(s) + SeqSum(Tail(s))

RECURSIVE SelectRows(_, _)
\* df[mask]: the rows whose mask entry is TRUE, in the frame's order
SelectRows(df, mask) ==
    IF df = <<>> THEN <<>>
    ELSE IF Head(mask) THEN <<Head(df)>> \o SelectRows(Tail(df), Tail(mask))
         ELSE SelectRows(Tail(df), Tail(mask))

\* The characters of the category names of the model.
Chars(s) ==
    CASE s = "Minifig Heads" ->
            <<"M","i","n","i","f","i","g"," ","H","e","a","d","s">>
      [] s = "Minifigs" -> <<"M","i","n","i","f","i","g","s">>
      [] s = "Minidoll Heads" ->
            <<"M","i","n","i","d","o","l","l"," ","H","e","a","d","s">>
      [] s = "Duplo Bricks" ->
            <<"D","u","p","l","o"," ","B","r","i","c","k","s">>
      [] s = "Bricks duplo" ->
            <<"B","r","i","c","k","s"," ","d","u","p","l","o">>
      [] s = "Bricks" -> <<"B","r","i","c","k","s">>
      [] s = "Duplo" -> <<"D","u","p","l","o">>
      [] OTHER -> <<>>

----------------------------------------------------------------------------
(* Exact fractions standing for the floats of the physical model *)

RECURSIVE GCD(_, _)
GCD(a, b) == IF b = 0 THEN a ELSE GCD(b, a % b)

Abs(x) == IF x < 0 THEN -x ELSE x

Frac(n, d) ==
    LET g == GCD(Abs(n), Abs(d)) IN
    IF g = 0 THEN [num |-> 0, den |-> 1] ELSE [num |-> n \div g, den |-> d \div g]

FMul(a, b) == Frac(a.num * b.num, a.den * b.den)
FDiv(a, b) ==
    IF b.num < 0 THEN Frac(-(a.num * b.den), a.den * (-b.num))
    ELSE Frac(a.num * b.den, a.den * b.num)

\* Python's int(x): truncation towards zero
int(x) == IF x.num >= 0 THEN x.num \div x.den ELSE -((-x.num) \div x.den)

----------------------------------------------------------------------------
(* src/app/main.py: helper functions *)

get_area_of_foot(size) ==
    LET foot_length == FMul(Frac(2, 3), Frac(size - 2, 1))
        foot_width == FMul(Frac(35, 100), foot_length)
    IN  FMul(foot_length, foot_width)

\* numpy.random.randint(low, high): low inclusive, high exclusive
randint(low, high) == low .. (high - 1)

\* a variant that truncates the count of one foot before doubling it
get_num_legos_truncated_per_foot(size, r) ==
    LET area_of_foot == get_area_of_foot(size)
        area_of_lego_block == FMul(Frac(234, 100), Frac(234, 100))
        num_legos_per_foot == FDiv(area_of_foot, area_of_lego_block)
    IN  int(num_legos_per_foot) * 2 + r

\* r is the value randint(-10, 10) returned in this call
get_num_legos_stepped_on(size, r) ==
    LET area_of_foot == get_area_of_foot(size)
        area_of_lego_block == FMul(Frac(234, 100), Frac(234, 100))
        num_legos_per_foot == FDiv(area_of_foot, area_of_lego_block)
        num_stepped_on == FMul(num_legos_per_foot, Frac(2, 1))
    IN  int(num_stepped_on) + r

\* legos_stepped_on[["color_name", "rgb"]].drop_duplicates(), then the loop
\* color_mappings[row["color_name"]] = "#" + row["rgb"]; a later pair with
\* the same color_name overwrites an earlier one.  "#" + NaN is a TypeError.
get_lego_color_map_raises(df) == \E i \in 1..Len(df) : df[i].rgb = Null

RECURSIVE LastIndexOf(_, _, _)
LastIndexOf(df, name, i) ==
    IF i = 0 THEN 0
    ELSE IF df[i].color_name = name THEN i ELSE LastIndexOf(df, name, i - 1)

get_lego_color_map(df) ==
    [name \in {df[i].color_name : i \in 1..Len(df)} |->
        <<"#", df[LastIndexOf(df, name, Len(df))].rgb>>]

RECURSIVE CountOf(_, _)
CountOf(s, v) ==
    IF s = <<>> THEN 0
    ELSE (IF Head(s) = v THEN 1 ELSE 0) + CountOf(Tail(s), v)

\* Series.value_counts(): dropna=True, so NaN is not a key of the result
value_counts(series) ==
    [v \in {series[i] : i \in 1..Len(series)} \ {Null} |-> CountOf(series, v)]

Column_color_name(df) == [i \in 1..Len(df) |-> df[i].color_name]

visualize_lego_colors(df) ==
    [counts |-> value_counts(Column_color_name(df)),
     color_discrete_map |-> get_lego_color_map(df)]

get_death_roll(df) ==
    LET mask == [i \in 1..Len(df) |->
                    df[i].part_cat_name \in
                        {"Minifigs", "Minifig Heads", "Minidoll Heads"}]
        kept == SelectRows(df, mask)
    IN  [i \in 1..Len(kept) |->
            [part_name |-> kept[i].part_name, img_url |-> kept[i].img_url]]

\* DataFrame.dropna() on the (part_name, img_url) frame: a row with a NaN in
\* either column is dropped
dropna(roll) ==
    SelectRows(roll, [i \in 1..Len(roll) |->
                        roll[i].part_name # Null /\ roll[i].img_url # Null])

RECURSIVE re_search(_, _, _)
\* re.search of a literal pattern, scanning from position i
re_search(hay, pat, i) ==
    IF i + Len(pat) - 1 > Len(hay) THEN FALSE
    ELSE IF SubSeq(hay, i, i + Len(pat) - 1) = pat THEN TRUE
         ELSE re_search(hay, pat, i + 1)

\* a variant that counts a NaN entry as a match (na=True)
str_contains_na_true(name, pat) ==
    IF name = Null THEN Some(TRUE) ELSE Some(re_search(Chars(name), Chars(pat), 1))

\* Series.str.contains(pat) for one entry: NaN stays NaN (None here)
str_contains(name, pat) ==
    IF name = Null THEN None ELSE Some(re_search(Chars(name), Chars(pat), 1))

\* Series.sum() of the str.contains result: skipna, True counts 1
calculate_damage(df) ==
    LET base_damage == Len(df)
        duplo_damage ==
            SeqSum([i \in 1..Len(df) |->
                IF str_contains(df[i].part_cat_name, "Duplo") = Some(TRUE)
                THEN 1 ELSE 0])
    IN  base_damage + duplo_damage

\* DataFrame.sample(n): ValueError for n < 0 and for n > len(df)
sample_raises(df, n) == n < 0 \/ n > Len(df)

\* DataFrame.sample(n) without replacement: n distinct rows in random order
sample(df, n) ==
    {[i \in 1..n |-> df[f[i]]] :
        f \in {g \in [1..n -> 1..Len(df)] :
                \A a, b \in 1..n : a # b => g[a] # g[b]}}

----------------------------------------------------------------------------
(* The rows a lego pile is made of, and the shoe sizes tried *)

Row(img, name, cat, color, hex) ==
    [img_url |-> img, part_name |-> name, part_cat_name |-> cat,
     color_name |-> color, rgb |-> hex]

HeadA      == Row("head_a.jpg", "Head A", "Minifig Heads", "Red", "C91A09")
HeadNoName == Row("head_b.jpg", Null, "Minifig Heads", "Blue", "0055BF")
HeadNoImg  == Row(Null, "Head C", "Minifig Heads", "Red", "C91A09")
DuploBrick == Row("duplo.jpg", "Duplo Brick", "Duplo Bricks", "Blue", "0055BF")
LowerDuplo == Row(Null, "Brick", "Bricks duplo", "Red", "C91A09")
\* part_num and color_id matched no reference row: the left joins left NaN
Unmatched  == Row("part.jpg", Null, Null, Null, Null)

RowKinds == {HeadA, HeadNoName, HeadNoImg, DuploBrick, LowerDuplo, Unmatched}

Piles == UNION {[1..k -> RowKinds] : k \in 0..MaxPile}

\* get_area_of_foot takes any number.  The selectbox offers 30..49, for which
\* 34..134 rows are drawn: more than a pile of MaxPile rows holds.  2 and 8
\* are sizes whose draw a small pile can supply.
ShoeSizes == {2, 8, 30}

Atoms == {"dump_out_legos", "choose_shoe_size", "take_a_step",
          "get_legos_stepped_on", "render_legos_stepped_on",
          "render_death_roll", "render_damage"}

Fresh == [a \in Atoms |-> "pending"]

----------------------------------------------------------------------------
(* src/app/main.py: the workflow atoms, in the order workflow.execute()    *)
(* runs them.  An atom whose function raises is "raised"; an atom whose    *)
(* dependency raised has no argument to be called with and is "skipped".   *)

estIdle == est_in = None /\ est_offset = None /\ est_out = None
buildIdle ==
    bpc = "idle" /\ inventory_parts = <<>> /\ raw_quantity = <<>> /\ bstatus = "ok"

Init ==
    /\ lego_pile_csv \in Piles
    /\ pc = "dump_out_legos"
    /\ lego_pile = None
    /\ shoe_size = None
    /\ step = FALSE
    /\ num_legos_stepped_on = None
    /\ sample_n = None
    /\ legos_stepped_on = None
    /\ reported = None
    /\ status = Fresh
    /\ colors_fig = None
    /\ minifigs_vanquished = None
    /\ featured_enemy = None
    /\ damage = None
    /\ estIdle
    /\ buildIdle

dump_out_legos ==
    /\ pc = "dump_out_legos"
    /\ lego_pile' = Some(lego_pile_csv)
    /\ status' = [status EXCEPT !["dump_out_legos"] = "completed"]
    /\ pc' = "choose_shoe_size"
    /\ UNCHANGED <<lego_pile_csv, shoe_size, step, num_legos_stepped_on,
                   sample_n, legos_stepped_on, reported, colors_fig,
                   minifigs_vanquished, featured_enemy, damage>>
    /\ UNCHANGED <<estVars, buildVars>>

\* selectbox(..., default=None): None until the user selects a size
choose_shoe_size ==
    /\ pc = "choose_shoe_size"
    /\ shoe_size' \in {None} \cup {Some(s) : s \in ShoeSizes}
    /\ status' = [status EXCEPT !["choose_shoe_size"] = "completed"]
    /\ pc' = "take_a_step"
    /\ UNCHANGED <<lego_pile_csv, lego_pile, step, num_legos_stepped_on,
                   sample_n, legos_stepped_on, reported, colors_fig,
                   minifigs_vanquished, featured_enemy, damage>>
    /\ UNCHANGED <<estVars, buildVars>>

take_a_step ==
    /\ pc = "take_a_step"
    /\ step' \in BOOLEAN
    /\ status' = [status EXCEPT !["take_a_step"] = "completed"]
    /\ pc' = "get_legos_stepped_on"
    /\ UNCHANGED <<lego_pile_csv, lego_pile, shoe_size, num_legos_stepped_on,
                   sample_n, legos_stepped_on, reported, colors_fig,
                   minifigs_vanquished, featured_enemy, damage>>
    /\ UNCHANGED <<estVars, buildVars>>

\* a variant that does not ask for an image
token_mask_any_head(df) ==
    [i \in 1..Len(df) |-> df[i].part_cat_name = "Minifig Heads"]

\* the mask of the token_minifig selection
token_mask(df) ==
    [i \in 1..Len(df) |->
        df[i].part_cat_name = "Minifig Heads" /\ df[i].img_url # Null]

\* a variant that forgets the token minifig in the count
no_increment(n) == n

\* num_legos_stepped_on += 1
increment(n) == n + 1

\* get_legos_stepped_on raised: no value is returned and nothing is shown
Raise(num, drawn) ==
    /\ num_legos_stepped_on' = num
    /\ sample_n' = drawn
    /\ legos_stepped_on' = None
    /\ reported' = None
    /\ status' = [status EXCEPT !["get_legos_stepped_on"] = "raised"]

get_legos_stepped_on ==
    /\ pc = "get_legos_stepped_on"
    /\ pc' = "render_legos_stepped_on"
    /\ IF ~step
       THEN \* the if is not taken: the function returns None
            /\ num_legos_stepped_on' = None
            /\ sample_n' = None
            /\ legos_stepped_on' = None
            /\ reported' = None
            /\ status' = [status EXCEPT !["get_legos_stepped_on"] = "completed"]
       ELSE IF shoe_size = None
       THEN \* None - 2 in get_area_of_foot: TypeError
            Raise(None, None)
       ELSE \E r \in randint(-10, 10) :
            LET n == get_num_legos_stepped_on(Val(shoe_size), r)
                pile == Val(lego_pile)
                heads == SelectRows(pile, token_mask(pile))
            IN  IF sample_raises(pile, n)
                THEN Raise(Some(n), Some(n))
                ELSE IF sample_raises(heads, 1)
                THEN Raise(Some(n), Some(n))
                ELSE \E base \in sample(pile, n), token_minifig \in sample(heads, 1) :
                        /\ num_legos_stepped_on' = Some(n)
                        /\ sample_n' = Some(n)
                        /\ legos_stepped_on' = Some(base \o token_minifig)
                        /\ reported' = Some(increment(n))
                        /\ status' = [status EXCEPT
                                        !["get_legos_stepped_on"] = "completed"]
    /\ UNCHANGED <<lego_pile_csv, lego_pile, shoe_size, step, colors_fig,
                   minifigs_vanquished, featured_enemy, damage>>
    /\ UNCHANGED <<estVars, buildVars>>

\* what a dependent atom does with the value of get_legos_stepped_on
Upstream ==
    IF status["get_legos_stepped_on"] = "raised" THEN "skipped"
    ELSE IF legos_stepped_on = None THEN "raised"
    ELSE "completed"

\* visualize_lego_colors(None): None[["color_name", "rgb"]] is a TypeError
render_legos_stepped_on ==
    /\ pc = "render_legos_stepped_on"
    /\ pc' = "render_death_roll"
    /\ LET outcome ==
            IF Upstream = "completed"
               /\ get_lego_color_map_raises(Val(legos_stepped_on))
            THEN "raised" ELSE Upstream
       IN  /\ status' = [status EXCEPT !["render_legos_stepped_on"] = outcome]
           /\ colors_fig' =
                IF outcome = "completed"
                THEN Some(visualize_lego_colors(Val(legos_stepped_on)))
                ELSE None
    /\ UNCHANGED <<lego_pile_csv, lego_pile, shoe_size, step,
                   num_legos_stepped_on, sample_n, legos_stepped_on, reported,
                   minifigs_vanquished, featured_enemy, damage>>
    /\ UNCHANGED <<estVars, buildVars>>

\* the row render_death_roll features, None when it features none
featured(roll) ==
    IF Len(dropna(roll)) > 0 THEN Some(dropna(roll)[1]) ELSE None

\* get_death_roll(None): None.part_cat_name is an AttributeError
render_death_roll ==
    /\ pc = "render_death_roll"
    /\ pc' = "render_damage"
    /\ status' = [status EXCEPT !["render_death_roll"] = Upstream]
    /\ IF Upstream = "completed"
       THEN /\ minifigs_vanquished' = Some(get_death_roll(Val(legos_stepped_on)))
            /\ featured_enemy' = featured(get_death_roll(Val(legos_stepped_on)))
       ELSE /\ minifigs_vanquished' = None
            /\ featured_enemy' = None
    /\ UNCHANGED <<lego_pile_csv, lego_pile, shoe_size, step,
                   num_legos_stepped_on, sample_n, legos_stepped_on, reported,
                   colors_fig, damage>>
    /\ UNCHANGED <<estVars, buildVars>>

\* calculate_damage(None): len(None) is a TypeError
render_damage ==
    /\ pc = "render_damage"
    /\ pc' = "done"
    /\ status' = [status EXCEPT !["render_damage"] = Upstream]
    /\ damage' = IF Upstream = "completed"
                 THEN Some(calculate_damage(Val(legos_stepped_on)))
                 ELSE None
    /\ UNCHANGED <<lego_pile_csv, lego_pile, shoe_size, step,
                   num_legos_stepped_on, sample_n, legos_stepped_on, reported,
                   colors_fig, minifigs_vanquished, featured_enemy>>
    /\ UNCHANGED <<estVars, buildVars>>

\* the next interaction runs the script, and workflow.execute(), again;
\* no value of the previous run is kept
rerun ==
    /\ pc = "done"
    /\ pc' = "dump_out_legos"
    /\ lego_pile' = None
    /\ shoe_size' = None
    /\ step' = FALSE
    /\ num_legos_stepped_on' = None
    /\ sample_n' = None
    /\ legos_stepped_on' = None
    /\ reported' = None
    /\ status' = Fresh
    /\ colors_fig' = None
    /\ minifigs_vanquished' = None
    /\ featured_enemy' = None
    /\ damage' = None
    /\ UNCHANGED lego_pile_csv
    /\ UNCHANGED <<estVars, buildVars>>

Next ==
    \/ dump_out_legos
    \/ choose_shoe_size
    \/ take_a_step
    \/ get_legos_stepped_on
    \/ render_legos_stepped_on
    \/ render_death_roll
    \/ render_damage
    \/ rerun

Spec == Init /\ [][Next]_vars

----------------------------------------------------------------------------
(* get_num_legos_stepped_on called on its own, for the sizes the selectbox *)
(* of choose_shoe_size offers: list(range(30, 50))                         *)

selectbox_options == 30..49

appIdle ==
    /\ lego_pile_csv = <<>>
    /\ pc = "idle"
    /\ lego_pile = None
    /\ shoe_size = None
    /\ step = FALSE
    /\ num_legos_stepped_on = None
    /\ sample_n = None
    /\ legos_stepped_on = None
    /\ reported = None
    /\ status = Fresh
    /\ colors_fig = None
    /\ minifigs_vanquished = None
    /\ featured_enemy = None
    /\ damage = None

InitEstimate ==
    /\ est_in \in {Some(s) : s \in selectbox_options}
    /\ est_offset = None
    /\ est_out = None
    /\ appIdle
    /\ buildIdle

call_get_num_legos_stepped_on ==
    /\ est_out = None
    /\ \E r \in randint(-10, 10) :
        /\ est_offset' = Some(r)
        /\ est_out' = Some(get_num_legos_stepped_on(Val(est_in), r))
    /\ UNCHANGED <<est_in, appVars, buildVars>>

NextEstimate == call_get_num_legos_stepped_on

SpecEstimate == InitEstimate /\ [][NextEstimate]_vars

----------------------------------------------------------------------------
(* src/preprocess/create_tailored_data.py: main, up to the explosion of    *)
(* inventory_parts into one row per piece                                  *)

PartNums == {"3001", "3002"}

InventoryRows == [part_num : PartNums, quantity : (-1)..MaxQuantity]

Column_quantity(df) == [i \in 1..Len(df) |-> df[i].quantity]

InitBuild ==
    /\ inventory_parts \in UNION {[1..k -> InventoryRows] : k \in 0..MaxInventory}
    /\ raw_quantity = Column_quantity(inventory_parts)
    /\ bpc = "apply"
    /\ bstatus = "ok"
    /\ appIdle
    /\ estIdle

\* np.repeat(1, q): an array of q ones; ValueError for q < 0
np_repeat(v, q) == [i \in 1..q |-> v]

\* inventory_parts["quantity"] = inventory_parts.quantity.apply(...)
apply_repeat ==
    /\ bpc = "apply"
    /\ IF \E i \in 1..Len(inventory_parts) : inventory_parts[i].quantity < 0
       THEN /\ bstatus' = "raised"
            /\ bpc' = "done"
            /\ UNCHANGED inventory_parts
       ELSE /\ inventory_parts' =
                [i \in 1..Len(inventory_parts) |->
                    [inventory_parts[i] EXCEPT
                        !.quantity = np_repeat(1, inventory_parts[i].quantity)]]
            /\ bpc' = "explode"
            /\ UNCHANGED bstatus
    /\ UNCHANGED <<raw_quantity, appVars, estVars>>

\* DataFrame.explode for one row: one row per element of the list-like; an
\* empty list-like gives one row whose cell is NaN
explode_row(row) ==
    IF Len(row.quantity) = 0
    THEN <<[part_num |-> row.part_num, quantity |-> None]>>
    ELSE [i \in 1..Len(row.quantity) |->
            [part_num |-> row.part_num, quantity |-> Some(row.quantity[i])]]

RECURSIVE explode(_)
explode(df) ==
    IF df = <<>> THEN <<>> ELSE explode_row(Head(df)) \o explode(Tail(df))

\* .drop("quantity", axis=1)
drop_quantity(df) == [i \in 1..Len(df) |-> [part_num |-> df[i].part_num]]

\* inventory_parts = inventory_parts.explode("quantity").drop("quantity", axis=1)
explode_drop ==
    /\ bpc = "explode"
    /\ inventory_parts' = drop_quantity(explode(inventory_parts))
    /\ bpc' = "exploded"
    /\ UNCHANGED <<raw_quantity, bstatus, appVars, estVars>>

NextBuild == apply_repeat \/ explode_drop

SpecBuild == InitBuild /\ [][NextBuild]_vars

----------------------------------------------------------------------------
(* Properties *)

Ran(a) == status[a] # "pending"

\* a trial ran (the trigger was true) and returned its sample
TrialReturned ==
    /\ step
    /\ status["get_legos_stepped_on"] = "completed"
    /\ legos_stepped_on # None

IsTrophy(row) == row.part_cat_name = "Minifig Heads" /\ row.img_url # Null

Trophies(df) == {i \in 1..Len(df) : IsTrophy(df[i])}

\* C1: every sample a trial returns holds at least one row whose
\* part_cat_name is "Minifig Heads" and whose img_url is not null.
C1_TrophyInEverySample ==
    TrialReturned => Trophies(Val(legos_stepped_on)) # {}

\* a returned sample whose base draw holds a head without an image and no
\* trophy: the token minifig is its only trophy
C1_Witness ==
    /\ TrialReturned
    /\ Cardinality(Trophies(Val(legos_stepped_on))) = 1
    /\ Val(legos_stepped_on)[1] = HeadNoImg
    /\ Val(num_legos_stepped_on) = 2

\* C2: a trial that drew n = get_num_legos_stepped_on(shoe size) base rows
\* returns n + 1 rows and reports n + 1, the number of rows it returns.
C2_RowsAndReportedCount ==
    TrialReturned =>
        /\ Len(Val(legos_stepped_on)) = Val(num_legos_stepped_on) + 1
        /\ Val(reported) = Val(num_legos_stepped_on) + 1
        /\ Val(reported) = Len(Val(legos_stepped_on))

\* n = 3 base rows and the trophy: 4 rows, 4 reported
C2_Witness ==
    /\ TrialReturned
    /\ Val(num_legos_stepped_on) = 3
    /\ Len(Val(legos_stepped_on)) = 4
    /\ Val(reported) = 4

C4_ExplodeRowCount ==
    bpc = "exploded" => Len(inventory_parts) = SeqSum(raw_quantity)

RECURSIVE FunSum(_, _)
FunSum(f, keys) ==
    IF keys = {} THEN 0
    ELSE LET k == CHOOSE x \in keys : TRUE IN f[k] + FunSum(f, keys \ {k})

\* C5: for every returned sample, rows with a null color_name included, the
\* per-color counts of visualize_lego_colors sum to the number of rows.
C5_ColorCountsSum ==
    (TrialReturned /\ Ran("render_legos_stepped_on")) =>
        /\ colors_fig # None
        /\ FunSum(Val(colors_fig).counts, DOMAIN Val(colors_fig).counts)
             = Len(Val(legos_stepped_on))

Duplo == <<"D", "u", "p", "l", "o">>

\* the category name is present and holds the letters D u p l o in a row
HasDuplo(name) ==
    /\ name # Null
    /\ \E k \in 1..Len(Chars(name)) :
        \A j \in 1..5 : k + j - 1 <= Len(Chars(name))
                        /\ Chars(name)[k + j - 1] = Duplo[j]

DuploRows(df) == {i \in 1..Len(df) : HasDuplo(df[i].part_cat_name)}

\* C6: damage is the number of rows plus the number of rows whose category
\* name contains "Duplo" (case-sensitive); so it is at least the number of
\* rows, with equality exactly when no category name contains "Duplo"; a row
\* with a null category name counts 1.
C6_Damage ==
    damage # None =>
        LET df == Val(legos_stepped_on) IN
        /\ Val(damage) = Len(df) + Cardinality(DuploRows(df))
        /\ Val(damage) >= Len(df)
        /\ (Val(damage) = Len(df)) <=> (DuploRows(df) = {})

\* a Duplo row, a row without a category, the trophy: damage 3 + 1
C6_Witness ==
    /\ damage = Some(4)
    /\ Len(Val(legos_stepped_on)) = 3
    /\ \E i \in 1..3 : Val(legos_stepped_on)[i].part_cat_name = Null
    /\ \E i \in 1..3 : Val(legos_stepped_on)[i].part_cat_name = "Duplo Bricks"

\* trunc(2 * footArea / (2.34 * 2.34)), footArea = 0.35 * ((2/3)(s - 2))^2:
\* 2 * 0.35 * (4/9) / 5.4756 = 28000 / (9 * 54756)
ClaimedBase(s) == (28000 * (s - 2) * (s - 2)) \div (9 * 54756)

\* C7: for a shoe size in 30..49 the estimate is
\* trunc(2 * footArea / (2.34 * 2.34)) + d with d in -10..9; the base
\* estimate of size 42 is 90 and depends on the shoe size alone.
C7_Estimate ==
    est_out # None =>
        /\ Val(est_in) \in 30..49
        /\ Val(est_offset) \in (-10)..9
        /\ Val(est_out) = ClaimedBase(Val(est_in)) + Val(est_offset)
        /\ Val(est_in) = 42 => Val(est_out) - Val(est_offset) = 90

\* size 31, where truncating one foot's count first would lose a piece,
\* with the lowest offset
C7_Witness ==
    /\ est_in = Some(31)
    /\ est_offset = Some(-10)
    /\ est_out = Some(37)

\* C8: a trial whose draw size exceeds the pile, or whose pile holds no
\* trophy, is caught inside the trial: the trial returns an absent result
\* and no error leaves it.
C8_TrialErrorCaught ==
    (/\ Ran("get_legos_stepped_on")
     /\ step
     /\ num_legos_stepped_on # None
     /\ Val(num_legos_stepped_on) >= 0
     /\ \/ Val(num_legos_stepped_on) > Len(Val(lego_pile))
        \/ Trophies(Val(lego_pile)) = {})
    => /\ status["get_legos_stepped_on"] = "completed"
       /\ legos_stepped_on = None

\* C9: a cycle in which no trial is requested (the trigger is false, or no
\* shoe size is selected) draws no sample and ends with no atom having
\* raised: no derived computation is applied to the absent result.
C9_NoTrialNoError ==
    (pc = "done" /\ (~step \/ shoe_size = None)) =>
        /\ sample_n = None
        /\ \A a \in Atoms : status[a] # "raised"

RECURSIVE FirstWithImage(_)
FirstWithImage(roll) ==
    IF roll = <<>> THEN None
    ELSE IF Head(roll).img_url # Null THEN Some(Head(roll))
         ELSE FirstWithImage(Tail(roll))

\* C10: the featured enemy is the first of the defeated figures that has an
\* image, whether or not it has a part name, and there is none exactly when
\* no defeated figure has an image.
C10_FeaturedEnemy ==
    status["render_death_roll"] = "completed" =>
        featured_enemy = FirstWithImage(Val(minifigs_vanquished))

====
